---- MODULE Spec2Model ----
(***************************************************************************)
(* Model of fader (src/main.rs): a still image is turned into a sequence   *)
(* of faded frames, which an external encoder (ffmpeg) turns into a video. *)
(*                                                                         *)
(* The program computes its brightness factors in IEEE 754 binary32 (f32). *)
(* An f32 value is modelled exactly: a record                              *)
(*     [k |-> "fin", neg |-> sign, m |-> mantissa, s |-> scale]            *)
(* stands for (-1)^neg * m / 2^s, with m = 0 (zero) or 2^23 <= m < 2^24;   *)
(* k = "nan" and k = "inf" are the non-finite values.  Every operation     *)
(* rounds to nearest, ties to even, as the hardware does.  Exponent range  *)
(* (subnormals, overflow to infinity) is not modelled: the values of this  *)
(* program stay far inside it.                                             *)
(***************************************************************************)
EXTENDS Integers, Sequences, FiniteSets, TLC

----------------------------------------------------------------------------
(* Bounds of the model. *)

\* --framerate ranges over 0 .. MaxFramerate
MaxFramerate == 5
\* --duration ranges over -1.0, -0.5, 0.0, 0.5, ... , MaxDurationHalves / 2
MaxDurationHalves == 4
\* image widths and heights
MaxWidth == 2
MaxHeight == 1
\* the renderer on its own is given the factors i/n and 1 - i/n, n <= MaxDenominator
MaxDenominator == 6

----------------------------------------------------------------------------
(* IEEE 754 binary32 arithmetic. *)

Pow2(n) == 2 ^ n

RECURSIVE BitLen(_)
BitLen(n) == IF n = 0 THEN 0 ELSE 1 + BitLen(n \div 2)

Abs(x) == IF x < 0 THEN -x ELSE x

F32NaN == [k |-> "nan", neg |-> FALSE, m |-> 0, s |-> 0]
F32Inf(neg) == [k |-> "inf", neg |-> neg, m |-> 0, s |-> 0]
F32Zero(neg) == [k |-> "fin", neg |-> neg, m |-> 0, s |-> 0]
F32Fin(neg, m, s) == [k |-> "fin", neg |-> neg, m |-> m, s |-> s]

IsNaN(a) == a.k = "nan"
IsInf(a) == a.k = "inf"
IsZero(a) == a.k = "fin" /\ a.m = 0

\* The f32 nearest to (-1)^neg * M / 2^s, for an integer 0 <= M < 2^31:
\* round to nearest, ties to even, then normalise the mantissa.
F32Round(neg, M, s) ==
    IF M = 0 THEN F32Zero(neg)
    ELSE LET L == BitLen(M) IN
         IF L <= 24 THEN F32Fin(neg, M * Pow2(24 - L), s + (24 - L))
         ELSE LET d    == L - 24
                  kept == M \div Pow2(d)
                  rem  == M % Pow2(d)
                  half == Pow2(d - 1)
                  up   == rem > half \/ (rem = half /\ kept % 2 = 1)
                  k2   == IF up THEN kept + 1 ELSE kept
              IN IF k2 = Pow2(24) THEN F32Fin(neg, Pow2(23), s - d - 1)
                                  ELSE F32Fin(neg, k2, s - d)

\* `n as f32` for an integer |n| < 2^24 (exact).
F32FromInt(n) == F32Round(n < 0, Abs(n), 0)

F32One == F32FromInt(1)

\* Long division: n more quotient bits of r / den appended to Q.
RECURSIVE DivBits(_, _, _, _)
DivBits(r, den, Q, n) ==
    IF n = 0 THEN <<Q, r>>
    ELSE IF 2 * r >= den THEN DivBits(2 * r - den, den, 2 * Q + 1, n - 1)
                         ELSE DivBits(2 * r, den, 2 * Q, n - 1)

\* a / b in f32.
F32Div(a, b) ==
    LET neg == (a.neg /= b.neg) IN
    IF IsNaN(a) \/ IsNaN(b) THEN F32NaN
    ELSE IF IsInf(a) THEN (IF IsInf(b) THEN F32NaN ELSE F32Inf(neg))
    ELSE IF IsInf(b) THEN F32Zero(neg)
    ELSE IF IsZero(b) THEN (IF IsZero(a) THEN F32NaN ELSE F32Inf(neg))
    ELSE IF IsZero(a) THEN F32Zero(neg)
    ELSE LET e   == IF a.m >= b.m THEN 0 ELSE 1
             num == IF e = 0 THEN a.m ELSE 2 * a.m
             qr  == DivBits(num - b.m, b.m, 1, 23)
             Q   == qr[1]
             r   == qr[2]
             up  == 2 * r > b.m \/ (2 * r = b.m /\ Q % 2 = 1)
             Q2  == IF up THEN Q + 1 ELSE Q
             s   == 23 + e + a.s - b.s
         IN IF Q2 = Pow2(24) THEN F32Fin(neg, Pow2(23), s - 1)
                             ELSE F32Fin(neg, Q2, s)

\* M shifted right by g bits, the lowest bit kept set when anything nonzero
\* was shifted out (the sticky bit of a hardware adder).
ShiftSticky(M, g) ==
    IF g = 0 THEN M
    ELSE IF g > 27 THEN (IF M = 0 THEN 0 ELSE 1)
    ELSE LET q == M \div Pow2(g)
             lost == M % Pow2(g)
         IN IF lost = 0 THEN q ELSE (IF q % 2 = 0 THEN q + 1 ELSE q)

\* a - b in f32: the operands are aligned with three extra bits (guard,
\* round, sticky), subtracted exactly, and the difference is rounded.
F32Sub(a, b) ==
    IF IsNaN(a) \/ IsNaN(b) THEN F32NaN
    ELSE IF IsInf(a) THEN (IF IsInf(b) /\ a.neg = b.neg THEN F32NaN ELSE a)
    ELSE IF IsInf(b) THEN F32Inf(~b.neg)
    ELSE IF IsZero(b) THEN (IF IsZero(a) THEN F32Zero(a.neg /\ ~b.neg) ELSE a)
    ELSE IF IsZero(a) THEN F32Fin(~b.neg, b.m, b.s)
    ELSE LET sc == IF a.s <= b.s THEN a.s ELSE b.s
             A  == ShiftSticky(8 * a.m, a.s - sc)
             B  == ShiftSticky(8 * b.m, b.s - sc)
             D  == (IF a.neg THEN -A ELSE A) - (IF b.neg THEN -B ELSE B)
         IN F32Round(D < 0, Abs(D), sc + 3)

\* a * b in f32: the 48-bit product of the mantissas is formed from 12-bit
\* halves and rounded to 24 bits.
F32Mul(a, b) ==
    LET neg == (a.neg /= b.neg) IN
    IF IsNaN(a) \/ IsNaN(b) THEN F32NaN
    ELSE IF IsInf(a) \/ IsInf(b)
         THEN (IF IsZero(a) \/ IsZero(b) THEN F32NaN ELSE F32Inf(neg))
    ELSE IF IsZero(a) \/ IsZero(b) THEN F32Zero(neg)
    ELSE LET B    == Pow2(12)
             ah   == a.m \div B
             al   == a.m % B
             bh   == b.m \div B
             bl   == b.m % B
             p0   == al * bl
             t1   == ah * bl + al * bh + (p0 \div B)
             l0   == p0 % B
             l1   == t1 % B
             H    == ah * bh + (t1 \div B)
             wide == H >= Pow2(23)
             kept == IF wide THEN H ELSE 2 * H + (l1 \div Pow2(11))
             rem  == IF wide THEN l1 * B + l0 ELSE (l1 % Pow2(11)) * B + l0
             half == IF wide THEN Pow2(23) ELSE Pow2(22)
             d    == IF wide THEN 24 ELSE 23
             up   == rem > half \/ (rem = half /\ kept % 2 = 1)
             k2   == IF up THEN kept + 1 ELSE kept
             s    == a.s + b.s - d
         IN IF k2 = Pow2(24) THEN F32Fin(neg, Pow2(23), s - 1)
                             ELSE F32Fin(neg, k2, s)

\* The integer part of a finite non-negative f32 below 2^24, and whether the
\* value has a fractional part.
IntPart(a) == IF a.s <= 0 THEN a.m * Pow2(-a.s)
              ELSE IF a.s > 24 THEN 0 ELSE a.m \div Pow2(a.s)
HasFrac(a) == a.s > 0 /\ (a.s > 24 \/ a.m % Pow2(a.s) /= 0)


\* `x.ceil() as usize` (src/main.rs:50): the cast saturates, so NaN and every
\* value below zero become 0.  Finite inputs only.
CeilAsUsize(a) ==
    CASE IsNaN(a) -> 0
      [] a.k = "fin" /\ (a.neg \/ a.m = 0) -> 0
      [] a.k = "fin" /\ ~a.neg /\ a.m > 0 ->
             IntPart(a) + (IF HasFrac(a) THEN 1 ELSE 0)

\* A cast that rounds to the nearest integer instead of truncating.
AsU8Nearest(a) ==
    CASE IsNaN(a) -> 0
      [] IsInf(a) -> IF a.neg THEN 0 ELSE 255
      [] a.k = "fin" /\ (a.neg \/ a.m = 0) -> 0
      [] a.k = "fin" /\ ~a.neg /\ a.m > 0 ->
             IF a.s <= 15 THEN 255
             ELSE LET up == a.s <= 24 /\ (2 * a.m) \div Pow2(a.s) % 2 = 1
                  IN IF IntPart(a) + (IF up THEN 1 ELSE 0) > 255 THEN 255
                     ELSE IntPart(a) + (IF up THEN 1 ELSE 0)

\* `x as u8` (src/main.rs:116): truncation toward zero, saturating at the
\* ends of 0 .. 255, NaN becoming 0.
AsU8(a) ==
    CASE IsNaN(a) -> 0
      [] IsInf(a) -> IF a.neg THEN 0 ELSE 255
      [] a.k = "fin" /\ (a.neg \/ a.m = 0) -> 0
      [] a.k = "fin" /\ ~a.neg /\ a.m > 0 ->
             IF a.s <= 15 THEN 255 ELSE IntPart(a)

----------------------------------------------------------------------------
(* The fade schedule (src/main.rs:51-76), one operator per match arm. *)

Styles == {"ToDark", "FromDark", "ToDarkAndBack", "FromDarkAndBack"}

\* Schedules with a slip in a divisor: the segment's length instead of its
\* last index.
ToDarkByLength(frame_count) ==
    [i \in 1 .. frame_count |->
        F32Sub(F32One, F32Div(F32FromInt(i - 1), F32FromInt(frame_count)))]

FromDarkByLength(frame_count) ==
    [i \in 1 .. frame_count |->
        F32Div(F32FromInt(i - 1), F32FromInt(frame_count))]

ToDarkAndBackByLength(frame_count) ==
    LET half == frame_count \div 2
        down == [i \in 1 .. half |->
                    F32Sub(F32One, F32Div(F32FromInt(i - 1), F32FromInt(half - 1)))]
        up   == [i \in 1 .. (frame_count - half) |->
                    F32Div(F32FromInt(i - 1), F32FromInt(frame_count - half))]
    IN down \o up

FromDarkAndBackByLength(frame_count) ==
    LET half == frame_count \div 2
        up   == [i \in 1 .. half |->
                    F32Div(F32FromInt(i - 1), F32FromInt(half - 1))]
        down == [i \in 1 .. (frame_count - half) |->
                    F32Sub(F32One, F32Div(F32FromInt(i - 1),
                                          F32FromInt(frame_count - half)))]
    IN up \o down

\* Index i of the model's sequences is index i - 1 of the Vec.  A closure
\* runs only for the indices of its range: over an empty range no divisor
\* is formed (frame_count - 1 and half - 1 are never taken of 0).
ToDark(frame_count) ==
    [i \in 1 .. frame_count |->
        F32Sub(F32One, F32Div(F32FromInt(i - 1), F32FromInt(frame_count - 1)))]

FromDark(frame_count) ==
    [i \in 1 .. frame_count |->
        F32Div(F32FromInt(i - 1), F32FromInt(frame_count - 1))]

ToDarkAndBack(frame_count) ==
    LET half == frame_count \div 2
        down == [i \in 1 .. half |->
                    F32Sub(F32One, F32Div(F32FromInt(i - 1), F32FromInt(half - 1)))]
        up   == [i \in 1 .. (frame_count - half) |->
                    F32Div(F32FromInt(i - 1), F32FromInt(frame_count - half - 1))]
    IN down \o up

FromDarkAndBack(frame_count) ==
    LET half == frame_count \div 2
        up   == [i \in 1 .. half |->
                    F32Div(F32FromInt(i - 1), F32FromInt(half - 1))]
        down == [i \in 1 .. (frame_count - half) |->
                    F32Sub(F32One, F32Div(F32FromInt(i - 1),
                                          F32FromInt(frame_count - half - 1)))]
    IN up \o down

FadeFactors(style, frame_count) ==
    CASE style = "ToDark"          -> ToDark(frame_count)
      [] style = "FromDark"        -> FromDark(frame_count)
      [] style = "ToDarkAndBack"   -> ToDarkAndBack(frame_count)
      [] style = "FromDarkAndBack" -> FromDarkAndBack(frame_count)

\* frame_count (src/main.rs:50).
FrameCount(duration, framerate) ==
    CeilAsUsize(F32Mul(duration, F32FromInt(framerate)))

----------------------------------------------------------------------------
(* The frame renderer (src/main.rs:109-125). *)

\* An image: width, height and one RGBA pixel per position <<x, y>>.
Positions(w, h) == (0 .. w - 1) \X (0 .. h - 1)

FadePixel(pixel, alpha) ==
    [r |-> AsU8(F32Mul(F32FromInt(pixel.r), alpha)),
     g |-> AsU8(F32Mul(F32FromInt(pixel.g), alpha)),
     b |-> AsU8(F32Mul(F32FromInt(pixel.b), alpha)),
     a |-> pixel.a]

fade_image(img, alpha) ==
    [width  |-> img.width,
     height |-> img.height,
     pixels |-> [p \in Positions(img.width, img.height) |->
                    FadePixel(img.pixels[p], alpha)]]

----------------------------------------------------------------------------
(* Paths and file names. *)

\* A file name is the sequence of its dot-separated parts; a path is a
\* directory and a file name.
FileStem(name) == IF Len(name) >= 2 THEN SubSeq(name, 1, Len(name) - 1) ELSE name

SetExtension(name, ext) == FileStem(name) \o <<ext>>

\* The default output path (src/main.rs:41-46): the input's stem, without
\* its directory, with the extension set to mp4.
DefaultOutput(input) ==
    [dir |-> <<>>, name |-> SetExtension(FileStem(input.name), "mp4")]

RECURSIVE Digits(_)
Digits(n) == IF n < 10 THEN <<n>> ELSE Digits(n \div 10) \o <<n % 10>>

RECURSIVE ZeroPad(_, _)
ZeroPad(ds, width) == IF Len(ds) >= width THEN ds ELSE ZeroPad(<<0>> \o ds, width)

\* format!("frame_{}.png", i): no padding.
FrameNameUnpadded(i) == <<"frame_", Digits(i), "png">>

\* format!("frame_{:04}.png", i)
FrameName(i) == <<"frame_", ZeroPad(Digits(i), 4), "png">>

----------------------------------------------------------------------------
(* Inputs. *)

Half(h) == F32Div(F32FromInt(h), F32FromInt(2))

Durations == {Half(h) : h \in -2 .. MaxDurationHalves}

Inputs == {[dir |-> <<"pics">>, name |-> <<"sun", "png">>],
           [dir |-> <<>>, name |-> <<"sun", "v2", "png">>]}

\* --output is an Option: <<>> is None, <<p>> is Some(p).
Outputs == {<<>>, <<[dir |-> <<"out">>, name |-> <<"clip", "mkv">>]>>}

\* Every command line clap accepts, within the bounds; --output is combined
\* with the first input only.
ArgsSet ==
    {a \in [input : Inputs, output : Outputs, framerate : 0 .. MaxFramerate,
            duration : Durations, style : Styles] :
        a.output = <<>> \/ Len(a.input.name) = 2}

Red == [r |-> 255, g |-> 0, b |-> 0, a |-> 255]
Teal == [r |-> 3, g |-> 128, b |-> 77, a |-> 64]

\* Of every size: solid teal, and a chequerboard of red and teal.
Patterns == {"teal", "chequer"}

PatternPixel(pat, p) ==
    CASE pat = "teal" -> Teal
      [] pat = "chequer" -> IF (p[1] + p[2]) % 2 = 0 THEN Red ELSE Teal

Images == {[width |-> w, height |-> h,
            pixels |-> [p \in Positions(w, h) |-> PatternPixel(pat, p)]] :
              w \in 1 .. MaxWidth, h \in 1 .. MaxHeight, pat \in Patterns}

\* For the renderer on its own: also the one-pixel images of every channel
\* value, and factors that are not schedule values.
Alphas == {0, 64, 255}

OnePixel(c, a) ==
    [width |-> 1, height |-> 1,
     pixels |-> [p \in Positions(1, 1) |->
                    [r |-> c, g |-> 255 - c, b |-> (7 * c) % 256, a |-> a]]]

RenderImages == Images \cup {OnePixel(c, a) : c \in 0 .. 255, a \in Alphas}

RenderFactors ==
    {F32Div(F32FromInt(i), F32FromInt(n)) : i \in 0 .. MaxDenominator, n \in 0 .. MaxDenominator}
    \cup {F32Sub(F32One, F32Div(F32FromInt(i), F32FromInt(n))) :
             i \in 0 .. MaxDenominator, n \in 0 .. MaxDenominator}
    \cup {F32Fin(FALSE, Pow2(24) - 1, 24),    \* the largest f32 below 1.0
          F32Fin(FALSE, 10737418, 28),        \* 0.04 - 9e-10
          F32Fin(FALSE, Pow2(23) + 1, 23)}    \* the smallest f32 above 1.0

NoImage == [width |-> 0, height |-> 0, pixels |-> <<>>]

NoPath == [dir |-> <<>>, name |-> <<>>]

----------------------------------------------------------------------------
(* The program: main (src/main.rs:38-107). *)

VARIABLES
    pc,            \* position in main
    args,          \* the parsed command line
    output_path,
    img,           \* the decoded input image
    frame_count,
    fade_factors,
    tmpdir,        \* the temporary directory: [exists, files]
    next_frame,    \* the index of the frame loop
    saves,         \* the names of the files written, in the order written
    ffmpeg_calls,  \* the encoder invocations, each with the files it found
    status,        \* the encoder's exit status
    stdout, stderr,
    exit_code,
    render         \* the renderer on its own: [img, alpha, out]

vars == <<pc, args, output_path, img, frame_count, fade_factors, tmpdir,
          next_frame, saves, ffmpeg_calls, status, stdout, stderr, exit_code, render>>

NoRender == [img |-> NoImage, alpha |-> F32NaN, out |-> NoImage]

NoTempDir == [exists |-> FALSE, files |-> <<>>]

\* A guard that leaves the directory behind.
KeepTempDir(dir) == dir

\* Drop of the TempDir guard: the directory and its files are removed.
DropTempDir(dir) == NoTempDir

\* A panic (a failed expect) unwinds main: the locals are dropped, the
\* message goes to stderr and the process exits with status 101.
Panic(msg) ==
    /\ pc' = "panicked"
    /\ tmpdir' = IF tmpdir.exists THEN DropTempDir(tmpdir) ELSE tmpdir
    /\ stderr' = Append(stderr, <<"panic", msg>>)
    /\ exit_code' = 101

Init ==
    /\ pc = "parsed"
    /\ args \in ArgsSet
    /\ output_path = NoPath
    /\ img = NoImage
    /\ frame_count = 0
    /\ fade_factors = <<>>
    /\ tmpdir = NoTempDir
    /\ next_frame = 0
    /\ saves = <<>>
    /\ ffmpeg_calls = <<>>
    /\ status = "none"
    /\ stdout = <<>>
    /\ stderr = <<>>
    /\ exit_code = "running"
    /\ render = NoRender

\* src/main.rs:41-46
ResolveOutput ==
    /\ pc = "parsed"
    /\ output_path' = IF args.output = <<>> THEN DefaultOutput(args.input)
                                           ELSE args.output[1]
    /\ pc' = "resolved"
    /\ UNCHANGED <<args, img, frame_count, fade_factors, tmpdir, next_frame,
                   saves, ffmpeg_calls, status, stdout, stderr, exit_code, render>>

\* src/main.rs:48
OpenImage ==
    /\ pc = "resolved"
    /\ \E im \in Images : img' = im
    /\ pc' = "opened"
    /\ UNCHANGED <<args, output_path, frame_count, fade_factors, tmpdir, next_frame,
                   saves, ffmpeg_calls, status, stdout, stderr, exit_code, render>>

OpenImageFails ==
    /\ pc = "resolved"
    /\ Panic("Failed to open input image")
    /\ UNCHANGED <<args, output_path, img, frame_count, fade_factors, next_frame,
                   saves, ffmpeg_calls, status, stdout, render>>

\* src/main.rs:50-76
ComputeSchedule ==
    /\ pc = "opened"
    /\ frame_count' = FrameCount(args.duration, args.framerate)
    /\ fade_factors' = FadeFactors(args.style, frame_count')
    /\ pc' = "scheduled"
    /\ UNCHANGED <<args, output_path, img, tmpdir, next_frame,
                   saves, ffmpeg_calls, status, stdout, stderr, exit_code, render>>

\* src/main.rs:78
CreateTempDir ==
    /\ pc = "scheduled"
    /\ tmpdir' = [exists |-> TRUE, files |-> <<>>]
    /\ next_frame' = 0
    /\ pc' = "frames"
    /\ UNCHANGED <<args, output_path, img, frame_count, fade_factors,
                   saves, ffmpeg_calls, status, stdout, stderr, exit_code, render>>

CreateTempDirFails ==
    /\ pc = "scheduled"
    /\ Panic("Failed to create temp dir")
    /\ UNCHANGED <<args, output_path, img, frame_count, fade_factors, next_frame,
                   saves, ffmpeg_calls, status, stdout, render>>

\* One iteration of the frame loop (src/main.rs:80-84).
SaveFrame ==
    /\ pc = "frames"
    /\ next_frame < Len(fade_factors)
    /\ LET factor == fade_factors[next_frame + 1]
           faded  == fade_image(img, factor)
       IN tmpdir' = [tmpdir EXCEPT
                        !.files = (FrameName(next_frame) :> faded) @@ @]
    /\ saves' = Append(saves, FrameName(next_frame))
    /\ next_frame' = next_frame + 1
    /\ UNCHANGED <<pc, args, output_path, img, frame_count, fade_factors,
                   ffmpeg_calls, status, stdout, stderr, exit_code, render>>

SaveFrameFails ==
    /\ pc = "frames"
    /\ next_frame < Len(fade_factors)
    /\ Panic("Failed to save frame")
    /\ UNCHANGED <<args, output_path, img, frame_count, fade_factors, next_frame,
                   saves, ffmpeg_calls, status, stdout, render>>

\* The encoder's command line (src/main.rs:86-98) and what it finds.
FfmpegCall ==
    [framerate |-> args.framerate,
     pattern   |-> <<"frame_", "%04d", "png">>,
     output    |-> output_path,
     files     |-> tmpdir.files]

\* src/main.rs:86-100: the encoder runs and exits.
RunEncoder ==
    /\ pc = "frames"
    /\ next_frame = Len(fade_factors)
    /\ ffmpeg_calls' = Append(ffmpeg_calls, FfmpegCall)
    /\ \E st \in {"success", "failure"} : status' = st
    /\ pc' = "encoded"
    /\ UNCHANGED <<args, output_path, img, frame_count, fade_factors, tmpdir,
                   next_frame, saves, stdout, stderr, exit_code, render>>

\* src/main.rs:100: the encoder could not be started.
RunEncoderFails ==
    /\ pc = "frames"
    /\ next_frame = Len(fade_factors)
    /\ Panic("Failed to run ffmpeg")
    /\ UNCHANGED <<args, output_path, img, frame_count, fade_factors, next_frame,
                   saves, ffmpeg_calls, status, stdout, render>>

\* The two messages the wrong way round.
ReportInverted ==
    /\ pc = "encoded"
    /\ IF status = "success"
       THEN /\ stderr' = Append(stderr, <<"FFmpeg failed">>)
            /\ stdout' = stdout
       ELSE /\ stdout' = Append(stdout, <<"Video saved to", output_path>>)
            /\ stderr' = stderr
    /\ pc' = "reported"
    /\ UNCHANGED <<args, output_path, img, frame_count, fade_factors, tmpdir,
                   next_frame, saves, ffmpeg_calls, status, exit_code, render>>

\* src/main.rs:102-106
Report ==
    /\ pc = "encoded"
    /\ IF status /= "success"
       THEN /\ stderr' = Append(stderr, <<"FFmpeg failed">>)
            /\ stdout' = stdout
       ELSE /\ stdout' = Append(stdout, <<"Video saved to", output_path>>)
            /\ stderr' = stderr
    /\ pc' = "reported"
    /\ UNCHANGED <<args, output_path, img, frame_count, fade_factors, tmpdir,
                   next_frame, saves, ffmpeg_calls, status, exit_code, render>>

\* src/main.rs:107: main returns, its locals are dropped.
Return ==
    /\ pc = "reported"
    /\ tmpdir' = DropTempDir(tmpdir)
    /\ exit_code' = 0
    /\ pc' = "done"
    /\ UNCHANGED <<args, output_path, img, frame_count, fade_factors,
                   next_frame, saves, ffmpeg_calls, status, stdout, stderr, render>>

Next ==
    \/ ResolveOutput
    \/ OpenImage
    \/ OpenImageFails
    \/ ComputeSchedule
    \/ CreateTempDir
    \/ CreateTempDirFails
    \/ SaveFrame
    \/ SaveFrameFails
    \/ RunEncoder
    \/ RunEncoderFails
    \/ Report
    \/ Return

Spec == Init /\ [][Next]_vars

----------------------------------------------------------------------------
(* The renderer on its own: fade_image applied to one image and one factor. *)

RenderArgs == [input |-> [dir |-> <<>>, name |-> <<"sun", "png">>], output |-> <<>>,
               framerate |-> 0, duration |-> F32Zero(FALSE), style |-> "ToDark"]

InitRender ==
    /\ pc = "render"
    /\ args = RenderArgs
    /\ output_path = NoPath
    /\ img = NoImage
    /\ frame_count = 0
    /\ fade_factors = <<>>
    /\ tmpdir = NoTempDir
    /\ next_frame = 0
    /\ saves = <<>>
    /\ ffmpeg_calls = <<>>
    /\ status = "none"
    /\ stdout = <<>>
    /\ stderr = <<>>
    /\ exit_code = "running"
    /\ \E im \in RenderImages, al \in RenderFactors :
           render = [img |-> im, alpha |-> al, out |-> NoImage]

Render ==
    /\ pc = "render"
    /\ render' = [render EXCEPT !.out = fade_image(render.img, render.alpha)]
    /\ pc' = "rendered"
    /\ UNCHANGED <<args, output_path, img, frame_count, fade_factors, tmpdir,
                   next_frame, saves, ffmpeg_calls, status, stdout, stderr,
                   exit_code>>

NextRender == Render

SpecRender == InitRender /\ [][NextRender]_vars

----------------------------------------------------------------------------
(* Exact comparisons, for stating the properties.  None of these uses the  *)
(* arithmetic above: fractions are compared by their continued fractions.  *)

\* n1/d1 >= n2/d2, for naturals with d1, d2 > 0.
RECURSIVE RatGe(_, _, _, _)
RatGe(n1, d1, n2, d2) ==
    LET q1 == n1 \div d1
        q2 == n2 \div d2
        r1 == n1 % d1
        r2 == n2 % d2
    IN IF q1 /= q2 THEN q1 > q2
       ELSE IF r2 = 0 THEN TRUE
       ELSE IF r1 = 0 THEN FALSE
       ELSE RatGe(d2, r2, d1, r1)

IsFinite(a) == a.k = "fin"

\* |a| <= |b| for finite a, b.
MagLe(a, b) == RatGe(b.m, Pow2(b.s), a.m, Pow2(a.s))

\* a <= b and a == b as f32 comparisons: false when either is NaN, and
\* -0.0 == 0.0.
F32Le(a, b) ==
    /\ IsFinite(a) /\ IsFinite(b)
    /\ IF a.neg /\ ~b.neg THEN TRUE
       ELSE IF ~a.neg /\ b.neg THEN a.m = 0 /\ b.m = 0
       ELSE IF a.neg THEN MagLe(b, a) ELSE MagLe(a, b)

F32Eq(a, b) == F32Le(a, b) /\ F32Le(b, a)

\* n / 2^k, for values that are f32 values.
Dyadic(n, k) == F32Round(FALSE, n, k)

\* |a - b| <= 2^-23, for a, b in [0, 1].
Within2ulp(a, b) ==
    /\ IsFinite(a) /\ IsFinite(b) /\ ~a.neg /\ ~b.neg
    /\ LET sc == IF a.s >= b.s THEN a.s ELSE b.s
           A  == a.m * Pow2(sc - a.s)
           B  == b.m * Pow2(sc - b.s)
       IN IF sc < 23 THEN A = B ELSE Abs(A - B) <= Pow2(sc - 23)

\* f is the f32 nearest to n/d (n >= 0, d > 0): it is within half a unit of
\* its last place of n/d.
NearestF32(f, n, d) ==
    /\ IsFinite(f) /\ ~f.neg
    /\ IF f.m = 0 THEN n = 0 ELSE 2 * Abs(f.m * d - n * Pow2(f.s)) <= d

Scheduled == pc \in {"scheduled", "frames", "encoded", "reported", "done"}

----------------------------------------------------------------------------
(* The claims. *)

\* C1: for style ToDark and frame_count >= 2 the schedule has frame_count
\* factors, starts at exactly 1.0, ends at exactly 0.0 and never increases.
C1_ToDarkDescends ==
    (Scheduled /\ args.style = "ToDark" /\ frame_count >= 2) =>
        /\ Len(fade_factors) = frame_count
        /\ F32Eq(fade_factors[1], Dyadic(1, 0))
        /\ F32Eq(fade_factors[frame_count], Dyadic(0, 0))
        /\ \A i \in 1 .. frame_count - 1 : F32Le(fade_factors[i + 1], fade_factors[i])

C1_Witness ==
    /\ pc = "scheduled" /\ args.style = "ToDark" /\ frame_count = 10
    /\ ~F32Eq(fade_factors[2], fade_factors[3])

\* C2, as stated: for frame_count >= 2 the FromDark schedule is exactly the
\* ToDark schedule reversed.
C2_ExactReverse ==
    (Scheduled /\ args.style = "FromDark" /\ frame_count >= 2) =>
        LET to_dark == ToDark(frame_count)
        IN \A i \in 1 .. frame_count :
              F32Eq(fade_factors[i], to_dark[frame_count + 1 - i])

\* C2, amended: for frame_count >= 2 the FromDark schedule is the ToDark
\* schedule reversed up to f32 rounding: the two factors differ by at most
\* 2^-23, and are equal at the first and the last index.
C2_ReverseUpToRounding ==
    (Scheduled /\ args.style = "FromDark" /\ frame_count >= 2) =>
        LET to_dark == ToDark(frame_count)
        IN /\ Len(fade_factors) = frame_count
           /\ \A i \in 1 .. frame_count :
                 Within2ulp(fade_factors[i], to_dark[frame_count + 1 - i])
           /\ \A i \in {1, frame_count} :
                 F32Eq(fade_factors[i], to_dark[frame_count + 1 - i])

C2_Witness ==
    /\ pc = "scheduled" /\ args.style = "FromDark" /\ frame_count = 4
    /\ ~F32Eq(fade_factors[2], ToDark(4)[3])
    /\ Within2ulp(fade_factors[2], ToDark(4)[3])

\* Every factor of the schedule is a number.
Defined(schedule) == \A i \in 1 .. Len(schedule) : IsFinite(schedule[i])

\* C3, as stated: whenever both are defined, the FromDarkAndBack schedule is
\* the ToDarkAndBack schedule reversed.
C3_Reverse ==
    (Scheduled /\ args.style = "FromDarkAndBack") =>
        LET to_dark_and_back == ToDarkAndBack(frame_count)
        IN (Defined(fade_factors) /\ Defined(to_dark_and_back)) =>
              \A i \in 1 .. frame_count :
                  F32Eq(fade_factors[i], to_dark_and_back[frame_count + 1 - i])

\* C3, amended: whenever both are defined, the two schedules mirror each
\* other in brightness, not in time: at every index the factor of the
\* descending segment is 1.0 minus the other style's factor at that index.
C3_Complement ==
    (Scheduled /\ args.style = "FromDarkAndBack") =>
        LET to_dark_and_back == ToDarkAndBack(frame_count)
        IN (Defined(fade_factors) /\ Defined(to_dark_and_back)) =>
              /\ Len(fade_factors) = frame_count
              /\ \A i \in 1 .. frame_count :
                    IF i <= frame_count \div 2
                    THEN F32Eq(to_dark_and_back[i], F32Sub(Dyadic(1, 0), fade_factors[i]))
                    ELSE F32Eq(fade_factors[i], F32Sub(Dyadic(1, 0), to_dark_and_back[i]))

C3_Witness ==
    /\ pc = "scheduled" /\ args.style = "FromDarkAndBack" /\ frame_count = 5
    /\ Defined(fade_factors) /\ Defined(ToDarkAndBack(frame_count))
    /\ F32Eq(fade_factors[1], Dyadic(0, 0))
    /\ F32Eq(ToDarkAndBack(frame_count)[1], Dyadic(1, 0))

\* C4, as stated: ToDarkAndBack with frame_count = 10 is 1.0, 0.75, 0.5,
\* 0.25, 0.0 followed by 0.0, 0.2, 0.4, 0.6, 0.8.
C4_AscentInFifths ==
    (Scheduled /\ args.style = "ToDarkAndBack" /\ frame_count = 10) =>
        /\ Len(fade_factors) = 10
        /\ \A i \in 1 .. 5 : F32Eq(fade_factors[i], Dyadic(5 - i, 2))
        /\ \A j \in 0 .. 4 : NearestF32(fade_factors[6 + j], j, 5)

\* C4, amended: ToDarkAndBack with frame_count = 10 has half = 5 and is
\* 1.0, 0.75, 0.5, 0.25, 0.0 followed by 0.0, 0.25, 0.5, 0.75, 1.0.
C4_AscentInQuarters ==
    (Scheduled /\ args.style = "ToDarkAndBack" /\ frame_count = 10) =>
        /\ Len(fade_factors) = 10
        /\ \A i \in 1 .. 5 : F32Eq(fade_factors[i], Dyadic(5 - i, 2))
        /\ \A j \in 0 .. 4 : F32Eq(fade_factors[6 + j], Dyadic(j, 2))

C4_Witness ==
    /\ pc = "scheduled" /\ args.style = "ToDarkAndBack" /\ frame_count = 10
    /\ F32Eq(fade_factors[10], Dyadic(1, 0))

\* C5: for every style and frame_count >= 1, every factor of the schedule is
\* a finite value in [0, 1].
C5_FactorsInUnitInterval ==
    (Scheduled /\ frame_count >= 1) =>
        \A i \in 1 .. Len(fade_factors) :
            /\ IsFinite(fade_factors[i])
            /\ F32Le(Dyadic(0, 0), fade_factors[i])
            /\ F32Le(fade_factors[i], Dyadic(1, 0))

C5_Witness ==
    /\ pc = "scheduled" /\ frame_count = 1 /\ IsNaN(fade_factors[1])

\* RN(c * f) >= j, where RN rounds the exact product to the nearest f32,
\* ties to even, for a channel value c, a finite f >= 0 and 0 <= j <= 256.
\* For j >= 1 take e with 2^e < j <= 2^(e+1): the f32 values just below j
\* are 2^(e-23) apart, so the product rounds up to j from j - 2^(e-24) on.
RoundedReaches(c, f, j) ==
    IF j = 0 THEN TRUE
    ELSE IF c = 0 \/ f.m = 0 THEN FALSE
    ELSE LET e == BitLen(j - 1) - 1
             t == f.s + e - 24
         IN IF t < 0 THEN RatGe(f.m, Pow2(f.s), j, c)
            ELSE RatGe(f.m, Pow2(t), j * Pow2(24 - e) - 1, c)

\* k is the f32 product of c and f, truncated toward zero.
TruncatedProduct(c, f, k) ==
    /\ k \in 0 .. 255
    /\ RoundedReaches(c, f, k)
    /\ ~RoundedReaches(c, f, k + 1)

InUnitInterval(f) == F32Le(Dyadic(0, 0), f) /\ F32Le(f, Dyadic(1, 0))

\* C6: for every image and every factor f in [0, 1], fade_image returns an
\* image of the same width and height whose alpha channel is the source's
\* and whose red, green and blue are the f32 product of the source channel
\* and f, truncated toward zero; f = 1.0 reproduces the source, f = 0.0
\* gives black.
C6_FadeImage ==
    (pc = "rendered" /\ InUnitInterval(render.alpha)) =>
        LET src == render.img
            out == render.out
            f   == render.alpha
        IN /\ out.width = src.width /\ out.height = src.height
           /\ DOMAIN out.pixels = Positions(src.width, src.height)
           /\ \A p \in Positions(src.width, src.height) :
                 /\ out.pixels[p].a = src.pixels[p].a
                 /\ TruncatedProduct(src.pixels[p].r, f, out.pixels[p].r)
                 /\ TruncatedProduct(src.pixels[p].g, f, out.pixels[p].g)
                 /\ TruncatedProduct(src.pixels[p].b, f, out.pixels[p].b)
                 /\ F32Eq(f, Dyadic(1, 0)) => out.pixels[p] = src.pixels[p]
                 /\ F32Eq(f, Dyadic(0, 0)) =>
                       out.pixels[p] = [r |-> 0, g |-> 0, b |-> 0, a |-> src.pixels[p].a]

\* 25 * (0.04 - 9e-10) is below 1 and 175 * (0.04 - 9e-10) is below 7; the
\* f32 products are 1.0 and 7.0.
C6_Witness ==
    /\ pc = "rendered"
    /\ render.img = OnePixel(25, 64)
    /\ render.alpha = F32Fin(FALSE, 10737418, 28)
    /\ render.out.pixels[<<0, 0>>] = [r |-> 1, g |-> 9, b |-> 7, a |-> 64]

\* C7: a run that reaches schedule generation, the temporary directory or
\* the encoder has a positive framerate, a positive duration and
\* frame_count >= 1.
C7_InputsValidated ==
    (Scheduled \/ tmpdir.exists \/ Len(ffmpeg_calls) > 0) =>
        /\ args.framerate > 0
        /\ F32Le(Dyadic(0, 0), args.duration) /\ ~IsZero(args.duration)
        /\ frame_count >= 1

C7_Witness ==
    /\ pc = "encoded" /\ args.framerate = 0 /\ frame_count = 0
    /\ Len(ffmpeg_calls) = 1 /\ DOMAIN ffmpeg_calls[1].files = {}

\* C8: once the encoder has exited, exactly one message is printed: after a
\* non-zero status the failure notice and never the success message, and the
\* program ends normally (no panic, exit status 0); after status zero the
\* success message with the output path and no failure notice.
C8_OneMessage ==
    /\ status = "failure" =>
          /\ stdout = <<>>
          /\ pc \in {"encoded", "reported", "done"}
          /\ pc \in {"reported", "done"} => stderr = << <<"FFmpeg failed">> >>
    /\ status = "success" =>
          /\ stderr = <<>>
          /\ pc \in {"encoded", "reported", "done"}
          /\ pc \in {"reported", "done"} =>
                stdout = << <<"Video saved to", output_path>> >>
    /\ pc = "encoded" => (status \in {"success", "failure"} /\ stdout = <<>> /\ stderr = <<>>)
    /\ pc \in {"reported", "done"} => Len(stdout) + Len(stderr) = 1
    /\ pc = "done" => exit_code = 0

C8_Witness ==
    /\ pc = "done" /\ status = "failure" /\ exit_code = 0
    /\ stderr = << <<"FFmpeg failed">> >> /\ stdout = <<>>

\* frame_<i zero-padded to 4 digits>.png, for i < 10000.
PaddedName(i) ==
    <<"frame_", <<(i \div 1000) % 10, (i \div 100) % 10, (i \div 10) % 10, i % 10>>, "png">>

\* C9: frame i is rendered from schedule[i] and saved as
\* frame_<i zero-padded to 4 digits>.png, for i = 0, 1, ... in increasing
\* order, each once; the encoder is invoked at most once, and only after all
\* frame_count frames are saved, when the temporary directory holds exactly
\* frame_0000 .. frame_(frame_count - 1).
C9_FramesInOrder ==
    /\ Len(saves) = next_frame
    /\ \A j \in 1 .. Len(saves) : saves[j] = PaddedName(j - 1)
    /\ tmpdir.exists =>
          /\ DOMAIN tmpdir.files = {PaddedName(j) : j \in 0 .. next_frame - 1}
          /\ \A j \in 0 .. next_frame - 1 :
                tmpdir.files[PaddedName(j)] = fade_image(img, fade_factors[j + 1])
    /\ Len(ffmpeg_calls) <= 1
    /\ \A c \in 1 .. Len(ffmpeg_calls) :
          /\ next_frame = frame_count
          /\ Len(fade_factors) = frame_count
          /\ DOMAIN ffmpeg_calls[c].files = {PaddedName(j) : j \in 0 .. frame_count - 1}
          /\ Cardinality(DOMAIN ffmpeg_calls[c].files) = frame_count
          /\ \A j \in 0 .. frame_count - 1 :
                ffmpeg_calls[c].files[PaddedName(j)] = fade_image(img, fade_factors[j + 1])
    /\ pc \in {"encoded", "reported", "done"} => Len(ffmpeg_calls) = 1

C9_Witness ==
    /\ pc = "encoded" /\ frame_count = 10 /\ Len(ffmpeg_calls) = 1
    /\ saves[10] = <<"frame_", <<0, 0, 0, 9>>, "png">>
    /\ Cardinality(DOMAIN ffmpeg_calls[1].files) = 10

\* C10: no terminal state (main returned, or a panic) is reached with the
\* temporary directory or a frame file in it still existing.
C10_TempDirRemoved ==
    pc \in {"done", "panicked"} => (~tmpdir.exists /\ DOMAIN tmpdir.files = {})

\* A frame failed to save after others had been written.
C10_Witness ==
    /\ pc = "panicked" /\ Len(saves) >= 2 /\ next_frame < frame_count
    /\ ~tmpdir.exists

====
